---------------------------- MODULE Spec2Model ----------------------------
(***************************************************************************)
(* A model of playlist_to_spotify.py: the three playlist readers           *)
(* (PlaylistReader), the Spotify operations (SpotifyManager) and the run   *)
(* of main.                                                                *)
(*                                                                         *)
(* Text is a sequence of one-character strings, so that strip, split,      *)
(* lower, the #EXTINF pattern and Path.stem are computed and not assumed.  *)
(* The remote service is state of the model: the user's playlists as the   *)
(* pages the service hands out, each playlist's items, the search          *)
(* catalogue.  A remote call may raise; where it does is chosen            *)
(* nondeterministically by the action that makes the call.                 *)
(*                                                                         *)
(* Five specifications share the definitions:                              *)
(*   Spec        main, run once or twice against the same remote state     *)
(*   SpecReader  read_m3u / read_txt / read_csv on a file                  *)
(*   SpecFind    find_playlist on a paged list of playlists                *)
(*   SpecBatch   add_tracks_to_playlist on a list of ids                   *)
(*   SpecAppend  the tail of main (lines 353-371) on a list of found ids   *)
(*               long enough to need several batches                       *)
(***************************************************************************)
EXTENDS Integers, Sequences, FiniteSets, TLC

VARIABLES
    \* ---- the command line and the input file (main, lines 253-283)
    fileTracks,        \* what the reader returns for the playlist file
    playlist_name,     \* args.playlist_name
    create_playlist,   \* args.create_playlist
    skip_duplicates,   \* args.skip_duplicates
    dry_run,           \* args.dry_run
    \* ---- the remote service
    catalog,           \* search query -> id of the best match, or None
    userPlaylists,     \* the pages of current_user_playlists()
    playlistTracks,    \* playlist id -> its items, in order
    playlist0,         \* playlistTracks before the first run (history)
    check_raised,      \* a membership check has raised, in this run or before (history)
    \* ---- one run of main
    run,               \* "first", then "rerun"
    pc,                \* the run-level state
    trace,             \* the run-level states this run has been in (history)
    exit_code,         \* <<>> while running, then <<0>> or <<1>>
    tracks,            \* main's tracks
    playlist_id,       \* main's playlist_id
    idx,               \* the search loop's position, 1-based
    results,           \* what search_track returned for tracks[1..idx-1] (history)
    found_tracks,      \* main's found_tracks
    not_found_tracks,  \* main's not_found_tracks
    console,           \* the summary and final lines printed by this run
    calls,             \* the batches handed to playlist_add_items by this run
    add_result,        \* <<>>, then <<b>> for the b add_tracks_to_playlist returned
    \* ---- PlaylistReader
    file_ext,          \* the file's extension, lower case
    file_lines,        \* the lines of an .m3u or .txt file
    csv_header,        \* the header row of a .csv file, split at ";"
    csv_rows,          \* the data rows of a .csv file, each split at ";"
    rd_state,          \* "start", "returned" or "raised"
    rd_tracks,         \* the list the reader returned
    \* ---- find_playlist on its own
    fp_state,          \* "start" or "returned"
    fp_result,         \* the id find_playlist returned, or None
    fp_fetched,        \* how many page fetches it made
    fp_raised          \* whether one of them raised

mainVars == <<run, pc, trace, exit_code, tracks, playlist_id, idx, results,
              found_tracks, not_found_tracks, console, calls, add_result>>
inputVars == <<fileTracks, playlist_name, create_playlist, skip_duplicates, dry_run>>
remoteVars == <<catalog, userPlaylists, playlistTracks, playlist0, check_raised>>
readerVars == <<file_ext, file_lines, csv_header, csv_rows, rd_state, rd_tracks>>
findVars == <<fp_state, fp_result, fp_fetched, fp_raised>>
vars == <<mainVars, inputVars, remoteVars, readerVars, findVars>>

\* Python's None where an id is expected; ids are positive numbers.
None == 0

-----------------------------------------------------------------------------
(* Bounds of the model.                                                    *)

\* Longest list of Track References the reader hands to main under Spec.
MaxTracks == 2
\* Items per page of playlist_tracks().
TrackPageSize == 2
\* Most lines of an .m3u or .txt file.
MaxLines == 2
\* Most data rows of a .csv file.
MaxRows == 2
\* Most pages of current_user_playlists(), and most playlists on one page.
MaxPages == 2
MaxPerPage == 2
\* Longest list of found ids under SpecAppend.
MaxIds == 205

-----------------------------------------------------------------------------
(* Text.                                                                   *)

\* str.strip() strips whitespace; the only whitespace character of the
\* model's alphabet is the space.
IsSpace(c) == c = " "

RECURSIVE LStrip(_)
LStrip(s) == IF s # <<>> /\ IsSpace(Head(s)) THEN LStrip(Tail(s)) ELSE s

RECURSIVE RStrip(_)
RStrip(s) ==
    IF s # <<>> /\ IsSpace(s[Len(s)]) THEN RStrip(SubSeq(s, 1, Len(s) - 1)) ELSE s

\* str.strip()
Strip(s) == RStrip(LStrip(s))

\* s[i:], 1-based
From(s, i) == SubSeq(s, i, Len(s))

\* str.startswith
StartsWith(s, p) == Len(s) >= Len(p) /\ SubSeq(s, 1, Len(p)) = p

\* str.find, 1-based; 0 when sub does not occur in s
Find(s, sub) ==
    LET hits == {i \in 1..(Len(s) - Len(sub) + 1) : SubSeq(s, i, i + Len(sub) - 1) = sub}
    IN  IF hits = {} THEN 0 ELSE CHOOSE i \in hits : \A j \in hits : i <= j

\* sub in s
Contains(s, sub) == Find(s, sub) # 0

\* str.rfind of one character, 1-based; 0 when c does not occur in s
RFindChar(s, c) ==
    LET hits == {i \in 1..Len(s) : s[i] = c}
    IN  IF hits = {} THEN 0 ELSE CHOOSE i \in hits : \A j \in hits : i >= j

\* s.split(sep, 1) when sep occurs in s: <<before, after>>
SplitOnce(s, sep) ==
    LET i == Find(s, sep)
    IN  <<SubSeq(s, 1, i - 1), From(s, i + Len(sep))>>

\* str.lower(), on ASCII letters
LowerChar(c) ==
    CASE c = "A" -> "a" [] c = "B" -> "b" [] c = "C" -> "c" [] c = "D" -> "d"
      [] c = "E" -> "e" [] c = "F" -> "f" [] c = "G" -> "g" [] c = "H" -> "h"
      [] c = "I" -> "i" [] c = "J" -> "j" [] c = "K" -> "k" [] c = "L" -> "l"
      [] c = "M" -> "m" [] c = "N" -> "n" [] c = "O" -> "o" [] c = "P" -> "p"
      [] c = "Q" -> "q" [] c = "R" -> "r" [] c = "S" -> "s" [] c = "T" -> "t"
      [] c = "U" -> "u" [] c = "V" -> "v" [] c = "W" -> "w" [] c = "X" -> "x"
      [] c = "Y" -> "y" [] c = "Z" -> "z"
      [] OTHER -> c

Lower(s) == [i \in 1..Len(s) |-> LowerChar(s[i])]

IsDigit(c) == c \in {"0", "1", "2", "3", "4", "5", "6", "7", "8", "9"}

SEP_DASH == <<" ", "-", " ">>
SEP_BY == <<" ", "b", "y", " ">>
EXTINF == <<"#", "E", "X", "T", "I", "N", "F", ":">>

\* All sequences over S of length 0..n.
RECURSIVE SeqsUpTo(_, _)
SeqsUpTo(S, n) ==
    IF n = 0 THEN {<<>>}
    ELSE LET shorter == SeqsUpTo(S, n - 1)
         IN  shorter \cup {Append(s, x) : s \in {t \in shorter : Len(t) = n - 1}, x \in S}

-----------------------------------------------------------------------------
(* PlaylistReader.                                                         *)

\* A Track Reference.
Ref(artist, title) == [artist |-> artist, title |-> title]

\* How many digits s starts with.
RECURSIVE LeadingDigits(_)
LeadingDigits(s) ==
    IF s # <<>> /\ IsDigit(Head(s)) THEN 1 + LeadingDigits(Tail(s)) ELSE 0

\* Whether #EXTINF:\d+,(.+) matches line at place p; the digits are taken
\* greedily and a comma must follow the last of them.
ExtinfMatchesAt(line, p) ==
    /\ StartsWith(From(line, p), EXTINF)
    /\ LET rest == From(line, p + Len(EXTINF))
           d == LeadingDigits(rest)
       IN  d >= 1 /\ Len(rest) >= d + 2 /\ rest[d + 1] = ","

\* re.search(r"#EXTINF:\d+,(.+)", line) (line 36): <<group 1>> of the
\* leftmost match, or <<>> when there is none.
ExtinfInfo(line) ==
    LET places == {p \in 1..Len(line) : ExtinfMatchesAt(line, p)}
    IN  IF places = {} THEN <<>>
        ELSE LET p == CHOOSE q \in places : \A r \in places : q <= r
                 rest == From(line, p + Len(EXTINF))
             IN  <<From(rest, LeadingDigits(rest) + 2)>>

\* The parts of a path between its slashes.
RECURSIVE PathParts(_)
PathParts(s) ==
    LET i == Find(s, <<"/">>)
    IN  IF i = 0 THEN <<s>>
        ELSE <<SubSeq(s, 1, i - 1)>> \o PathParts(From(s, i + 1))

\* Path(line).name: the last part that is neither empty nor ".", or "".
PathName(line) ==
    LET parts == SelectSeq(PathParts(line), LAMBDA x : x # <<>> /\ x # <<".">>)
    IN  IF parts = <<>> THEN <<>> ELSE parts[Len(parts)]

\* Path(line).stem (line 54): the name without its suffix, which starts at
\* the last dot when that dot is neither the first nor the last character.
PathStem(line) ==
    LET name == PathName(line)
        i == RFindChar(name, ".")
    IN  IF i >= 2 /\ i <= Len(name) - 1 THEN SubSeq(name, 1, i - 1) ELSE name

\* Lines 39-46: the pending slot an #EXTINF info sets.
RefOfInfo(info) ==
    IF Contains(info, SEP_DASH)
    THEN Ref(Strip(SplitOnce(info, SEP_DASH)[1]), Strip(SplitOnce(info, SEP_DASH)[2]))
    ELSE Ref(<<>>, Strip(info))

\* Lines 54-61: the Track Reference of a path line without pending slot.
RefOfPath(line) ==
    LET filename == PathStem(line)
    IN  IF Contains(filename, SEP_DASH)
        THEN Ref(Strip(SplitOnce(filename, SEP_DASH)[1]),
                 Strip(SplitOnce(filename, SEP_DASH)[2]))
        ELSE Ref(<<>>, filename)

\* Lines 32-61: one turn of read_m3u's loop.  st.current is <<>> for the
\* empty dict and <<ref>> for a pending slot.
M3ULine(st, raw) ==
    LET line == Strip(raw)
    IN  IF StartsWith(line, EXTINF)
        THEN IF ExtinfInfo(line) # <<>>
             THEN [st EXCEPT !.current = <<RefOfInfo(ExtinfInfo(line)[1])>>]
             ELSE st
        ELSE IF line # <<>> /\ ~StartsWith(line, <<"#">>)
        THEN IF st.current # <<>>
             THEN [tracks |-> Append(st.tracks, st.current[1]), current |-> <<>>]
             ELSE [st EXCEPT !.tracks = Append(@, RefOfPath(line))]
        ELSE st

RECURSIVE M3ULoop(_, _)
M3ULoop(st, lines) ==
    IF lines = <<>> THEN st ELSE M3ULoop(M3ULine(st, Head(lines)), Tail(lines))

\* read_m3u (lines 25-63)
ReadM3U(lines) == M3ULoop([tracks |-> <<>>, current |-> <<>>], lines).tracks

\* Lines 72-84: what read_txt appends for one line.
TxtLine(raw) ==
    LET line == Strip(raw)
    IN  IF line = <<>> THEN <<>>
        ELSE IF Contains(line, SEP_DASH)
        THEN <<Ref(Strip(SplitOnce(line, SEP_DASH)[1]), Strip(SplitOnce(line, SEP_DASH)[2]))>>
        ELSE IF Contains(line, SEP_BY)
        THEN <<Ref(Strip(SplitOnce(line, SEP_BY)[2]), Strip(SplitOnce(line, SEP_BY)[1]))>>
        ELSE <<Ref(<<>>, Strip(line))>>

\* read_txt (lines 66-86)
RECURSIVE ReadTxt(_)
ReadTxt(lines) ==
    IF lines = <<>> THEN <<>> ELSE TxtLine(Head(lines)) \o ReadTxt(Tail(lines))

\* None where a text is expected: no text has an element of several characters.
NoneText == <<"None">>

\* bool(v) of a text or None
Truthy(v) == v # <<>> /\ v # NoneText

\* row.get(key, "") for the row csv.DictReader makes of the header and a
\* line's fields: the field under the last column of that name, None when
\* the line is too short to have one, "" when no column has the name.
RowGet(header, fields, key) ==
    LET cols == {i \in 1..Len(header) : header[i] = key}
    IN  IF cols = {} THEN <<>>
        ELSE LET i == CHOOSE c \in cols : \A d \in cols : c >= d
             IN  IF i <= Len(fields) THEN fields[i] ELSE NoneText

\* a or b or ... : the first truthy value, else the last one
RECURSIVE OrChain(_)
OrChain(vs) ==
    IF Len(vs) = 1 \/ Truthy(Head(vs)) THEN Head(vs) ELSE OrChain(Tail(vs))

H_artist == <<"a", "r", "t", "i", "s", "t">>
H_Artist == <<"A", "r", "t", "i", "s", "t">>
H_ARTIST == <<"A", "R", "T", "I", "S", "T">>
H_title == <<"t", "i", "t", "l", "e">>
H_Title == <<"T", "i", "t", "l", "e">>
H_TITLE == <<"T", "I", "T", "L", "E">>
H_track == <<"t", "r", "a", "c", "k">>
H_Track == <<"T", "r", "a", "c", "k">>
H_song == <<"s", "o", "n", "g">>
H_Song == <<"S", "o", "n", "g">>

\* The title columns with track looked under before title.
TitleKeys_TrackFirst == <<H_track, H_Track, H_title, H_Title, H_TITLE, H_song, H_Song>>

\* The column names read_csv looks under, in order (lines 97-110).
ArtistKeys == <<H_artist, H_Artist, H_ARTIST>>
TitleKeys == <<H_title, H_Title, H_TITLE, H_track, H_Track, H_song, H_Song>>

CsvArtist(header, fields) ==
    OrChain([k \in 1..Len(ArtistKeys) |-> RowGet(header, fields, ArtistKeys[k])])
CsvTitle(header, fields) ==
    OrChain([k \in 1..Len(TitleKeys) |-> RowGet(header, fields, TitleKeys[k])])

\* Line 113 raises AttributeError for artist None.
CsvRowRaises(header, fields) ==
    Truthy(CsvTitle(header, fields)) /\ CsvArtist(header, fields) = NoneText

\* Lines 112-113: what read_csv appends for one row.
CsvRow(header, fields) ==
    IF Truthy(CsvTitle(header, fields))
    THEN <<Ref(Strip(CsvArtist(header, fields)), Strip(CsvTitle(header, fields)))>>
    ELSE <<>>

\* read_csv (lines 89-115) on the rows csv.DictReader yields, which leaves
\* out the lines without any field: the list returned, or raised at the
\* first row line 113 raises for.
RECURSIVE ReadCsv(_, _)
ReadCsv(header, rows) ==
    IF rows = <<>> THEN [raised |-> FALSE, tracks |-> <<>>]
    ELSE IF Head(rows) = <<>> THEN ReadCsv(header, Tail(rows))
    ELSE IF CsvRowRaises(header, Head(rows)) THEN [raised |-> TRUE, tracks |-> <<>>]
    ELSE LET rest == ReadCsv(header, Tail(rows))
         IN  [raised |-> rest.raised,
              tracks |-> IF rest.raised THEN <<>> ELSE CsvRow(header, Head(rows)) \o rest.tracks]

-----------------------------------------------------------------------------
(* SpotifyManager.  `raises` and `errAt` say where the remote call raises. *)

\* search_track's query string, as its parts (lines 142-145)
Query(artist, title) ==
    IF artist # <<>> THEN <<"track:", title, " artist:", artist>>
    ELSE <<"track:", title>>

\* search_track (lines 139-154): catalog[q] is results["tracks"]["items"]
\* for limit=1, a list of no or one id.
SearchTrack(artist, title, raises) ==
    LET items == catalog[Query(artist, title)]
    IN  IF raises THEN None
        ELSE IF items # <<>> THEN items[1] ELSE None

\* The names compared as they are, without lower().
MatchOnPage_CaseSensitive(page, name) ==
    LET hits == {i \in 1..Len(page) : page[i].name = name}
    IN  IF hits = {} THEN None
        ELSE page[CHOOSE i \in hits : \A j \in hits : i <= j].id

\* The first playlist of a page whose name matches, or None (lines 160-162).
MatchOnPage(page, name) ==
    LET hits == {i \in 1..Len(page) : Lower(page[i].name) = Lower(name)}
    IN  IF hits = {} THEN None
        ELSE page[CHOOSE i \in hits : \A j \in hits : i <= j].id

\* find_playlist from the p-th page on (lines 156-174).  The p-th fetch is
\* current_user_playlists() for p = 1 and sp.next() after it; the fetch
\* numbered errAt raises (0: none does).  `fetched` counts the fetches made,
\* `raised` says whether the call got to the one that raises (line 172).
RECURSIVE FindFrom(_, _, _, _)
FindFrom(pages, name, errAt, p) ==
    IF errAt = p THEN [id |-> None, fetched |-> p, raised |-> TRUE]
    ELSE LET hit == MatchOnPage(pages[p], name)
         IN  IF hit # None THEN [id |-> hit, fetched |-> p, raised |-> FALSE]
             ELSE IF p < Len(pages) THEN FindFrom(pages, name, errAt, p + 1)
             ELSE [id |-> None, fetched |-> p, raised |-> FALSE]

FindPlaylist(pages, name, errAt) == FindFrom(pages, name, errAt, 1)

\* create_playlist (lines 176-188): the id the service gives the new playlist.
\* playlistTracks is indexed by playlist id, 1..Len(playlistTracks).
NewPlaylistId == Len(playlistTracks) + 1

\* The pages of playlist_tracks(): at least one, each of TrackPageSize items
\* but the last.
NumTrackPages(items) ==
    IF items = <<>> THEN 1 ELSE (Len(items) + TrackPageSize - 1) \div TrackPageSize

TrackPage(items, p) ==
    SubSeq(items, (p - 1) * TrackPageSize + 1,
           IF p * TrackPageSize < Len(items) THEN p * TrackPageSize ELSE Len(items))

\* is_track_in_playlist from the p-th page on (lines 203-221).  An item is
\* the id of its track, or None for an item whose "track" is null.
RECURSIVE InPlaylistFrom(_, _, _, _)
InPlaylistFrom(items, track_id, errAt, p) ==
    IF errAt = p THEN FALSE
    ELSE LET page == TrackPage(items, p)
         IN  IF \E i \in 1..Len(page) : page[i] # None /\ page[i] = track_id THEN TRUE
             ELSE IF p < NumTrackPages(items)
                  THEN InPlaylistFrom(items, track_id, errAt, p + 1)
                  ELSE FALSE

\* is_track_in_playlist without the loop over tracks["next"]: the first page only.
IsTrackInPlaylist_FirstPageOnly(items, track_id, errAt) ==
    /\ errAt # 1
    /\ \E i \in 1..Len(TrackPage(items, 1)) : TrackPage(items, 1)[i] = track_id

IsTrackInPlaylist(items, track_id, errAt) == InPlaylistFrom(items, track_id, errAt, 1)

\* Whether that call reached the fetch that raises (line 219): it did unless
\* an earlier page held the id.
InPlaylistRaised(items, track_id, errAt) ==
    /\ errAt # 0
    /\ \A p \in 1..(errAt - 1) :
          \A i \in 1..Len(TrackPage(items, p)) : TrackPage(items, p)[i] # track_id

\* Chunk size of add_tracks_to_playlist (line 194).
BatchSize == 100

NumBatches(track_ids) == (Len(track_ids) + BatchSize - 1) \div BatchSize

\* The slice taken one short: track_ids[i : i + 99].
Batch_Short(track_ids, k) ==
    SubSeq(track_ids, (k - 1) * BatchSize + 1,
           IF k * BatchSize - 1 < Len(track_ids) THEN k * BatchSize - 1 ELSE Len(track_ids))

\* track_ids[i : i + 100] for the k-th value of i (line 195)
Batch(track_ids, k) ==
    SubSeq(track_ids, (k - 1) * BatchSize + 1,
           IF k * BatchSize < Len(track_ids) THEN k * BatchSize ELSE Len(track_ids))

\* f"spotify:track:{track_id}" (line 196), and the id the service reads back
TrackUri(track_id) == <<"spotify:track:", track_id>>
UriId(uri) == uri[2]
TrackUris(batch) == [i \in 1..Len(batch) |-> TrackUri(batch[i])]

\* The batches of track_ids numbered from..to, as the calls made.
RECURSIVE BatchCalls(_, _, _)
BatchCalls(track_ids, from, to) ==
    IF from > to THEN <<>>
    ELSE <<TrackUris(Batch(track_ids, from))>> \o BatchCalls(track_ids, from + 1, to)

RECURSIVE Flatten(_)
Flatten(ss) == IF ss = <<>> THEN <<>> ELSE Head(ss) \o Flatten(Tail(ss))

\* add_tracks_to_playlist with the try inside the loop: a batch that raises
\* is passed over and the later ones are still handed over.
AddTracksToPlaylist_KeepsGoing(items, track_ids, failAt) ==
    LET n == NumBatches(track_ids)
        uris == Flatten(BatchCalls(track_ids, 1, failAt - 1))
                \o Flatten(BatchCalls(track_ids, failAt + 1, n))
    IN  IF failAt = 0
        THEN [ok |-> TRUE, made |-> BatchCalls(track_ids, 1, n),
              items |-> items \o [i \in 1..Len(track_ids) |-> track_ids[i]]]
        ELSE [ok |-> FALSE, made |-> BatchCalls(track_ids, 1, n),
              items |-> items \o [i \in 1..Len(uris) |-> UriId(uris[i])]]

\* add_tracks_to_playlist (lines 190-201).  The call numbered failAt raises
\* (0: none does): calls before it have been applied, it and the later ones
\* have not.  made: the batches handed to playlist_add_items, in order,
\* the raising one included.
AddTracksToPlaylist(items, track_ids, failAt) ==
    LET n == NumBatches(track_ids)
        last == IF failAt = 0 THEN n ELSE failAt
        applied == IF failAt = 0 THEN n ELSE failAt - 1
        uris == Flatten(BatchCalls(track_ids, 1, applied))
    IN  [ok |-> failAt = 0,
         made |-> BatchCalls(track_ids, 1, last),
         items |-> items \o [i \in 1..Len(uris) |-> UriId(uris[i])]]

-----------------------------------------------------------------------------
(* main.                                                                   *)

\* The run-level state moves to s.
Goto(s) == pc' = s /\ trace' = Append(trace, s)

\* The error printed, but the exit code left at 0.
Fail_ExitsZero(msg) ==
    /\ Goto("FAILED")
    /\ exit_code' = <<0>>
    /\ console' = Append(console, <<msg>>)

\* sys.exit(1), having printed msg
Fail(msg) ==
    /\ Goto("FAILED")
    /\ exit_code' = <<1>>
    /\ console' = Append(console, <<msg>>)

\* Lines 255-263: the credentials come from the flags or the environment.
ResolveCredentials ==
    /\ pc = "INIT"
    /\ \E have \in BOOLEAN :
          \/ /\ ~have
             /\ Fail("credentials required")
          \/ /\ have
             /\ Goto("CREDENTIALS_RESOLVED")
             /\ UNCHANGED <<exit_code, console>>
    /\ UNCHANGED <<run, tracks, playlist_id, idx, results, found_tracks,
                   not_found_tracks, calls, add_result>>
    /\ UNCHANGED <<inputVars, remoteVars, readerVars, findVars>>

\* Lines 266-289: the file must exist, its extension picks the reader, and
\* the reader's list must not be empty.  fileTracks is what the reader
\* returns for this file.
ParseFile ==
    /\ pc = "CREDENTIALS_RESOLVED"
    /\ \E exists \in BOOLEAN, ext \in {".m3u", ".txt", ".csv", ".pdf"} :
          \/ /\ ~exists
             /\ Fail("file not found")
             /\ UNCHANGED tracks
          \/ /\ exists
             /\ ext \notin {".m3u", ".txt", ".csv"}
             /\ Fail("unsupported file format")
             /\ UNCHANGED tracks
          \/ /\ exists
             /\ ext \in {".m3u", ".txt", ".csv"}
             /\ tracks' = fileTracks
             /\ fileTracks = <<>>
             /\ Fail("no tracks found")
          \/ /\ exists
             /\ ext \in {".m3u", ".txt", ".csv"}
             /\ tracks' = fileTracks
             /\ fileTracks # <<>>
             /\ Goto("FILE_PARSED")
             /\ UNCHANGED <<exit_code, console>>
    /\ UNCHANGED <<run, playlist_id, idx, results, found_tracks,
                   not_found_tracks, calls, add_result>>
    /\ UNCHANGED <<inputVars, remoteVars, readerVars, findVars>>

\* Lines 291-296: SpotifyManager(client_id, client_secret) may raise.
Connect ==
    /\ pc = "FILE_PARSED"
    /\ \E raises \in BOOLEAN :
          \/ /\ raises
             /\ Fail("error initializing")
          \/ /\ ~raises
             /\ Goto("CONNECTED")
             /\ UNCHANGED <<exit_code, console>>
    /\ UNCHANGED <<run, tracks, playlist_id, idx, results, found_tracks,
                   not_found_tracks, calls, add_result>>
    /\ UNCHANGED <<inputVars, remoteVars, readerVars, findVars>>

\* Lines 298-318: find the playlist, or create it when asked to.
ResolvePlaylist ==
    /\ pc = "CONNECTED"
    /\ \E errAt \in 0..Len(userPlaylists), createRaises \in BOOLEAN :
          LET found == FindPlaylist(userPlaylists, playlist_name, errAt).id
          IN  \/ /\ found # None
                 /\ playlist_id' = found
                 /\ Goto("PLAYLIST_RESOLVED")
                 /\ UNCHANGED <<exit_code, console, userPlaylists, playlistTracks>>
              \/ /\ found = None
                 /\ ~create_playlist
                 /\ Fail("playlist not found")
                 /\ UNCHANGED <<playlist_id, userPlaylists, playlistTracks>>
              \/ /\ found = None
                 /\ create_playlist
                 /\ createRaises
                 /\ Fail("failed to create playlist")
                 /\ playlist_id' = None
                 /\ UNCHANGED <<userPlaylists, playlistTracks>>
              \/ /\ found = None
                 /\ create_playlist
                 /\ ~createRaises
                 /\ playlist_id' = NewPlaylistId
                 /\ userPlaylists' =
                       [userPlaylists EXCEPT
                          ![1] = <<[name |-> playlist_name, id |-> NewPlaylistId]>> \o @]
                 /\ playlistTracks' = Append(playlistTracks, <<>>)
                 /\ Goto("PLAYLIST_RESOLVED")
                 /\ UNCHANGED <<exit_code, console>>
    /\ UNCHANGED <<run, tracks, idx, results, found_tracks, not_found_tracks,
                   calls, add_result>>
    /\ UNCHANGED <<inputVars, catalog, playlist0, check_raised, readerVars, findVars>>

\* The loop without its else branch: a reference not found is dropped.
SearchOutcome_DropsNotFound(track_id, in_playlist) ==
    IF track_id # None
    THEN IF skip_duplicates /\ in_playlist THEN "skipped" ELSE "found"
    ELSE "skipped"

\* Lines 329-341: what the loop does with tracks[idx], given the id the
\* search returned and, when it was asked, whether the playlist has it.
SearchOutcome(track_id, in_playlist) ==
    IF track_id # None
    THEN IF skip_duplicates /\ in_playlist THEN "skipped" ELSE "found"
    ELSE "not found"

\* Lines 325-341: one turn of the search loop, for tracks[idx].
\* is_track_in_playlist is called only for a found id under --skip-duplicates.
SearchStep ==
    /\ pc = "PLAYLIST_RESOLVED"
    /\ idx <= Len(tracks)
    /\ \E searchRaises \in BOOLEAN,
          errAt \in 0..NumTrackPages(playlistTracks[playlist_id]) :
          LET track == tracks[idx]
              items == playlistTracks[playlist_id]
              track_id == SearchTrack(track.artist, track.title, searchRaises)
              asked == track_id # None /\ skip_duplicates
              outcome == SearchOutcome(track_id,
                                       asked /\ IsTrackInPlaylist(items, track_id, errAt))
          IN  /\ results' = Append(results, track_id)
              /\ check_raised' =
                    (check_raised \/ (asked /\ InPlaylistRaised(items, track_id, errAt)))
              /\ found_tracks' =
                    IF outcome = "found" THEN Append(found_tracks, track_id)
                    ELSE found_tracks
              /\ not_found_tracks' =
                    IF outcome = "not found" THEN Append(not_found_tracks, track)
                    ELSE not_found_tracks
    /\ idx' = idx + 1
    /\ UNCHANGED <<run, pc, trace, exit_code, tracks, playlist_id, console, calls,
                   add_result>>
    /\ UNCHANGED <<inputVars, catalog, userPlaylists, playlistTracks, playlist0,
                   readerVars, findVars>>

\* Lines 343-351: the loop is over; the summary is printed.
Summarize ==
    /\ pc = "PLAYLIST_RESOLVED"
    /\ idx > Len(tracks)
    /\ Goto("TRACKS_SEARCHED")
    /\ console' = console \o <<<<"Found", Len(found_tracks)>>,
                               <<"Not found", not_found_tracks>>>>
    /\ UNCHANGED <<run, exit_code, tracks, playlist_id, idx, results, found_tracks,
                   not_found_tracks, calls, add_result>>
    /\ UNCHANGED <<inputVars, remoteVars, readerVars, findVars>>

\* The append not held back by --dry-run.
WillAppend_IgnoresDryRun == found_tracks # <<>>

\* Lines 354-359: which branch the tail of main takes.
WillReport == found_tracks # <<>> /\ dry_run
WillAppend == found_tracks # <<>> /\ ~dry_run

\* Lines 353-371: report (dry run), append, or say there is nothing to add.
AppendOrReport ==
    /\ pc = "TRACKS_SEARCHED"
    /\ \/ /\ WillReport
          /\ Goto("DRY_RUN_REPORTED")
          /\ console' = Append(console, <<"Dry run: Would add", Len(found_tracks)>>)
          /\ UNCHANGED <<exit_code, calls, add_result, playlistTracks>>
       \/ /\ WillAppend
          /\ \E failAt \in 0..NumBatches(found_tracks) :
                LET r == AddTracksToPlaylist(playlistTracks[playlist_id], found_tracks, failAt)
                IN  /\ calls' = calls \o r.made
                    /\ add_result' = <<r.ok>>
                    /\ playlistTracks' = [playlistTracks EXCEPT ![playlist_id] = r.items]
                    /\ \/ /\ r.ok
                          /\ Goto("TRACKS_APPENDED")
                          /\ console' = Append(console, <<"Successfully added">>)
                          /\ UNCHANGED exit_code
                       \/ /\ ~r.ok
                          /\ Fail("failed to add tracks")
       \/ /\ found_tracks = <<>>
          /\ Goto("DONE")
          /\ exit_code' = <<0>>
          /\ console' = Append(console, <<"No tracks to add">>)
          /\ UNCHANGED <<calls, add_result, playlistTracks>>
    /\ UNCHANGED <<run, tracks, playlist_id, idx, results, found_tracks, not_found_tracks>>
    /\ UNCHANGED <<inputVars, catalog, userPlaylists, playlist0, check_raised, readerVars, findVars>>

\* main returns after its last print: exit code 0.
Exit ==
    /\ pc \in {"DRY_RUN_REPORTED", "TRACKS_APPENDED"}
    /\ Goto("DONE")
    /\ exit_code' = <<0>>
    /\ UNCHANGED <<run, tracks, playlist_id, idx, results, found_tracks,
                   not_found_tracks, console, calls, add_result>>
    /\ UNCHANGED <<inputVars, remoteVars, readerVars, findVars>>

\* The state of main as it starts (after parse_args, line 253).
MainStart ==
    /\ pc = "INIT"
    /\ trace = <<"INIT">>
    /\ exit_code = <<>>
    /\ tracks = <<>>
    /\ playlist_id = None
    /\ idx = 1
    /\ results = <<>>
    /\ found_tracks = <<>>
    /\ not_found_tracks = <<>>
    /\ console = <<>>
    /\ calls = <<>>
    /\ add_result = <<>>

\* The tool is run again, with the same command line and file, against the
\* service as the run before left it.
Rerun ==
    /\ pc \in {"DONE", "FAILED"}
    /\ run = "first"
    /\ run' = "rerun"
    /\ pc' = "INIT"
    /\ trace' = <<"INIT">>
    /\ exit_code' = <<>>
    /\ tracks' = <<>>
    /\ playlist_id' = None
    /\ idx' = 1
    /\ results' = <<>>
    /\ found_tracks' = <<>>
    /\ not_found_tracks' = <<>>
    /\ console' = <<>>
    /\ calls' = <<>>
    /\ add_result' = <<>>
    /\ UNCHANGED <<inputVars, remoteVars, readerVars, findVars>>

-----------------------------------------------------------------------------
(* Spec: main on a parsed file, run and then run again.                    *)

\* The reader and find_playlist variables when the specification is not
\* about them.
ReaderIdle ==
    /\ file_ext = ".txt"
    /\ file_lines = <<>>
    /\ csv_header = <<>>
    /\ csv_rows = <<>>
    /\ rd_state = "idle"
    /\ rd_tracks = <<>>

FindIdle ==
    /\ fp_state = "idle"
    /\ fp_result = None
    /\ fp_fetched = 0
    /\ fp_raised = FALSE

\* The Track References of the files main is run on: one without artist.
RefX == [artist |-> <<>>, title |-> <<"x">>]
RefY == [artist |-> <<"a">>, title |-> <<"y">>]
MainRefs == {RefX, RefY}
QX == Query(RefX.artist, RefX.title)
QY == Query(RefY.artist, RefY.title)

\* What the service's search answers: nothing, one id each, or one id for both.
MainCatalogs ==
    { (QX :> <<>>) @@ (QY :> <<>>),
      (QX :> <<1>>) @@ (QY :> <<>>),
      (QX :> <<1>>) @@ (QY :> <<2>>),
      (QX :> <<1>>) @@ (QY :> <<1>>) }

\* The playlist asked for, and the user's playlists: none; the one asked for
\* (in another letter case); or another one and then it, on two pages.
MainName == <<"M", "x">>
MainRemotes ==
    {[listing |-> <<<<>>>>, items |-> <<>>]}
    \cup {[listing |-> <<<<[name |-> <<"m", "x">>, id |-> 1]>>>>, items |-> <<c>>] :
            c \in {<<>>, <<1>>, <<None, 2, 1>>}}
    \cup {[listing |-> <<<<[name |-> <<"k">>, id |-> 1]>>, <<[name |-> <<"M", "X">>, id |-> 2]>>>>,
           items |-> <<<<1>>, <<>>>>]}

Init ==
    /\ fileTracks \in SeqsUpTo(MainRefs, MaxTracks)
    /\ playlist_name = MainName
    /\ create_playlist \in BOOLEAN
    /\ skip_duplicates \in BOOLEAN
    /\ dry_run \in BOOLEAN
    /\ catalog \in MainCatalogs
    /\ \E r \in MainRemotes :
          /\ userPlaylists = r.listing
          /\ playlistTracks = r.items
          /\ playlist0 = r.items
    /\ check_raised = FALSE
    /\ run = "first"
    /\ MainStart
    /\ ReaderIdle
    /\ FindIdle

Next ==
    \/ ResolveCredentials
    \/ ParseFile
    \/ Connect
    \/ ResolvePlaylist
    \/ SearchStep
    \/ Summarize
    \/ AppendOrReport
    \/ Exit
    \/ Rerun

Spec == Init /\ [][Next]_vars

-----------------------------------------------------------------------------
(* Properties of main (Spec).                                              *)

Finished == pc \in {"DONE", "FAILED"}

\* How often x occurs in the sequence s.
Count(s, x) == Cardinality({i \in 1..Len(s) : s[i] = x})

\* The ids the search resolves the file's Track References to.
ResolvedIds ==
    {catalog[Query(fileTracks[i].artist, fileTracks[i].title)][1] :
        i \in {j \in 1..Len(fileTracks) :
                 catalog[Query(fileTracks[j].artist, fileTracks[j].title)] # <<>>}}

\* The items of playlist p before the first run; a playlist a run created
\* was empty.
ItemsBefore(p) == IF p <= Len(playlist0) THEN playlist0[p] ELSE <<>>

\* How often id t is in playlist p after one run with --skip-duplicates in
\* which no remote call fails: as often as before when the playlist had it,
\* and else once for each Track Reference resolved to t.
OneRunCount(p, t) ==
    IF Count(ItemsBefore(p), t) > 0 THEN Count(ItemsBefore(p), t)
    ELSE Cardinality({i \in 1..Len(fileTracks) :
                        catalog[Query(fileTracks[i].artist, fileTracks[i].title)] = <<t>>})

NoDoubling ==
    \A p \in 1..Len(playlistTracks) : \A t \in ResolvedIds :
        Count(playlistTracks[p], t) <= OneRunCount(p, t)

PlaylistsUntouched ==
    \A p \in 1..Len(playlistTracks) : playlistTracks[p] = ItemsBefore(p)

InConsole(msg) == \E i \in 1..Len(console) : console[i] = msg

\* C4: under --dry-run no batch is ever handed to playlist_add_items and no
\* playlist's items change, however many ids were resolved; the run prints the
\* number of ids it would add (the summary's "Found: n", and "Dry run: Would
\* add n" when n > 0).
C4_DryRunAppendsNothing ==
    dry_run =>
        /\ calls = <<>>
        /\ add_result = <<>>
        /\ PlaylistsUntouched
        /\ pc \in {"TRACKS_SEARCHED", "DRY_RUN_REPORTED", "DONE"} =>
              InConsole(<<"Found", Len(found_tracks)>>)
        /\ (pc \in {"DRY_RUN_REPORTED", "DONE"} /\ found_tracks # <<>>) =>
              /\ InConsole(<<"Dry run: Would add", Len(found_tracks)>>)
              /\ "TRACKS_APPENDED" \notin {trace[i] : i \in 1..Len(trace)}

C4_Witness ==
    /\ dry_run /\ pc = "DONE" /\ exit_code = <<0>>
    /\ Len(found_tracks) = Len(fileTracks) /\ Len(found_tracks) >= 2
    /\ InConsole(<<"Dry run: Would add", Len(found_tracks)>>)
    /\ calls = <<>>

\* The Track References among the first n whose search returned nothing, in order.
RECURSIVE NotFoundAmong(_)
NotFoundAmong(n) ==
    IF n = 0 THEN <<>>
    ELSE IF results[n] = None THEN Append(NotFoundAmong(n - 1), tracks[n])
    ELSE NotFoundAmong(n - 1)

\* The ids handed to playlist_add_items by this run, in order.
AppendedIds == LET uris == Flatten(calls) IN [i \in 1..Len(uris) |-> UriId(uris[i])]

\* C5: the Track References whose search returned nothing are exactly the
\* not-found list, which the summary prints, and they give no id to
\* found_tracks nor to any append call, whatever the flags.
C5_NotFoundReportedNotAppended ==
    /\ not_found_tracks = NotFoundAmong(Len(results))
    /\ Len(found_tracks) <= Cardinality({i \in 1..Len(results) : results[i] # None})
    /\ \A i \in 1..Len(found_tracks) : found_tracks[i] # None
    /\ \A i \in 1..Len(AppendedIds) :
          AppendedIds[i] # None /\ AppendedIds[i] \in {found_tracks[j] : j \in 1..Len(found_tracks)}
    /\ Len(AppendedIds) <= Len(found_tracks)
    /\ pc \in {"TRACKS_SEARCHED", "DRY_RUN_REPORTED", "TRACKS_APPENDED", "DONE"} =>
          InConsole(<<"Not found", NotFoundAmong(Len(tracks))>>)

\* One reference was not found, another was found and appended.
C5_Witness ==
    /\ pc = "DONE"
    /\ Len(results) = 2 /\ results[1] = None /\ results[2] # None
    /\ not_found_tracks = <<tracks[1]>>
    /\ AppendedIds = <<results[2]>>

\* The run-level states up to TRACKS_SEARCHED, in order.
LinearPath == <<"INIT", "CREDENTIALS_RESOLVED", "FILE_PARSED", "CONNECTED",
                "PLAYLIST_RESOLVED", "TRACKS_SEARCHED">>

IsPrefix(s, t) == Len(s) <= Len(t) /\ SubSeq(t, 1, Len(s)) = s

FatalMessages == {<<"credentials required">>, <<"file not found">>,
                  <<"unsupported file format">>, <<"no tracks found">>,
                  <<"error initializing">>, <<"playlist not found">>,
                  <<"failed to create playlist">>, <<"failed to add tracks">>}

\* A fatal error goes from a state of the linear path straight to FAILED,
\* with exit code 1; a run still under way has no exit code.
FatalIsDirect ==
    /\ pc = "FAILED" =>
          /\ exit_code = <<1>>
          /\ IsPrefix(SubSeq(trace, 1, Len(trace) - 1), LinearPath)
          /\ console # <<>> /\ console[Len(console)] \in FatalMessages
    /\ exit_code = <<1>> => pc = "FAILED"
    /\ exit_code = <<0>> => pc = "DONE"
    /\ pc \notin {"DONE", "FAILED"} => exit_code = <<>>

\* C6, as claimed: a run that reaches DONE has been through TRACKS_SEARCHED
\* and then through exactly one of DRY_RUN_REPORTED and TRACKS_APPENDED, and a
\* fatal error goes straight to FAILED with a non-zero exit code.
C6_LinearRun ==
    /\ pc = "DONE" =>
          /\ exit_code = <<0>>
          /\ \/ trace = LinearPath \o <<"DRY_RUN_REPORTED", "DONE">>
             \/ trace = LinearPath \o <<"TRACKS_APPENDED", "DONE">>
    /\ FatalIsDirect

\* C6, amended: a run that reaches DONE has been through the linear path to
\* TRACKS_SEARCHED and then, when it accumulated at least one id, through
\* exactly one of DRY_RUN_REPORTED (dry run) and TRACKS_APPENDED (otherwise);
\* when it accumulated none it goes from TRACKS_SEARCHED straight to DONE.
\* A fatal error goes straight to FAILED with exit code 1.
C6_LinearRunOrNothingToAdd ==
    /\ pc = "DONE" =>
          /\ exit_code = <<0>>
          /\ trace = LinearPath
                     \o (IF found_tracks = <<>> THEN <<>>
                         ELSE IF dry_run THEN <<"DRY_RUN_REPORTED">>
                         ELSE <<"TRACKS_APPENDED">>)
                     \o <<"DONE">>
    /\ FatalIsDirect

\* A run with nothing to add has ended with exit code 0.
C6_Witness ==
    /\ pc = "DONE" /\ exit_code = <<0>>
    /\ found_tracks = <<>>
    /\ trace = LinearPath \o <<"DONE">>
    /\ InConsole(<<"No tracks to add">>)

-----------------------------------------------------------------------------
(* SpecBatch: add_tracks_to_playlist called on a list of ids.              *)
(* found_tracks is the list passed as track_ids, playlist_id the playlist. *)

\* The Track Reference, the query and the id numbered i of a long file.
NumRef(i) == [artist |-> <<>>, title |-> <<i>>]
NumQuery(i) == Query(NumRef(i).artist, NumRef(i).title)

\* A call of add_tracks_to_playlist(playlist_id, found_tracks), lines 190-201.
AddTracksCall ==
    /\ pc = "CALL"
    /\ \E failAt \in 0..NumBatches(found_tracks) :
          LET r == AddTracksToPlaylist(playlistTracks[playlist_id], found_tracks, failAt)
          IN  /\ calls' = r.made
              /\ add_result' = <<r.ok>>
              /\ playlistTracks' = [playlistTracks EXCEPT ![playlist_id] = r.items]
    /\ pc' = "RETURNED"
    /\ UNCHANGED <<run, trace, exit_code, tracks, playlist_id, idx, results,
                   found_tracks, not_found_tracks, console>>
    /\ UNCHANGED <<inputVars, catalog, userPlaylists, playlist0, check_raised,
                   readerVars, findVars>>

InitBatch ==
    /\ \E n \in 0..MaxIds : found_tracks = [i \in 1..n |-> i]
    /\ \E items \in {<<>>, <<None, 1>>} :
          /\ playlistTracks = <<items>>
          /\ playlist0 = <<items>>
    /\ playlist_id = 1
    /\ userPlaylists = <<<<[name |-> MainName, id |-> 1]>>>>
    /\ pc = "CALL"
    /\ calls = <<>>
    /\ add_result = <<>>
    /\ fileTracks = <<>> /\ tracks = <<>> /\ results = <<>> /\ not_found_tracks = <<>>
    /\ catalog = <<>>
    /\ playlist_name = MainName
    /\ create_playlist = FALSE /\ skip_duplicates = FALSE /\ dry_run = FALSE
    /\ check_raised = FALSE
    /\ run = "first" /\ trace = <<>> /\ exit_code = <<>> /\ idx = 1 /\ console = <<>>
    /\ ReaderIdle
    /\ FindIdle

NextBatch == AddTracksCall

SpecBatch == InitBatch /\ [][NextBatch]_vars

\* The ids of a batch handed to playlist_add_items.
BatchIds(uris) == [i \in 1..Len(uris) |-> UriId(uris[i])]

\* C3: when no call raises, every batch but the last has exactly 100 ids, the
\* last has 1 to 100, an empty list makes no call, and the batches in call
\* order, one after the other, are the list that was passed.
C3_BatchesSplitAtHundred ==
    (pc = "RETURNED" /\ add_result = <<TRUE>>) =>
        /\ \A k \in 1..(Len(calls) - 1) : Len(calls[k]) = 100
        /\ calls # <<>> => (Len(calls[Len(calls)]) >= 1 /\ Len(calls[Len(calls)]) <= 100)
        /\ found_tracks = <<>> <=> calls = <<>>
        /\ BatchIds(Flatten(calls)) = found_tracks
        /\ \A k \in 1..Len(calls) : \A i \in 1..Len(calls[k]) :
              calls[k][i] = <<"spotify:track:", found_tracks[(k - 1) * 100 + i]>>
        /\ playlistTracks[playlist_id] = playlist0[playlist_id] \o found_tracks

\* 201 ids went out as batches of 100, 100 and 1.
C3_Witness ==
    /\ pc = "RETURNED" /\ add_result = <<TRUE>>
    /\ Len(found_tracks) = 201
    /\ Len(calls) = 3 /\ Len(calls[1]) = 100 /\ Len(calls[2]) = 100 /\ Len(calls[3]) = 1

-----------------------------------------------------------------------------
(* SpecAppend: the tail of main from TRACKS_SEARCHED, after a search loop  *)
(* over a file of n Track References that were all found, or all not.      *)

InitAppend ==
    /\ \E n \in 1..MaxIds, found \in BOOLEAN :
          /\ fileTracks = [i \in 1..n |-> NumRef(i)]
          /\ tracks = [i \in 1..n |-> NumRef(i)]
          /\ catalog = [q \in {NumQuery(i) : i \in 1..n} |->
                           IF found THEN <<q[2][1]>> ELSE <<>>]
          /\ results = [i \in 1..n |-> IF found THEN i ELSE None]
          /\ found_tracks = IF found THEN [i \in 1..n |-> i] ELSE <<>>
          /\ not_found_tracks = IF found THEN <<>> ELSE [i \in 1..n |-> NumRef(i)]
          /\ idx = n + 1
          /\ console = <<<<"Found", IF found THEN n ELSE 0>>,
                         <<"Not found", IF found THEN <<>> ELSE [i \in 1..n |-> NumRef(i)]>>>>
    /\ \E items \in {<<>>, <<None, 1>>} :
          /\ playlistTracks = <<items>>
          /\ playlist0 = <<items>>
    /\ playlist_id = 1
    /\ userPlaylists = <<<<[name |-> MainName, id |-> 1]>>>>
    /\ playlist_name = MainName
    /\ create_playlist = FALSE
    /\ skip_duplicates = FALSE
    /\ dry_run \in BOOLEAN
    /\ check_raised = FALSE
    /\ run = "first"
    /\ pc = "TRACKS_SEARCHED"
    /\ trace = LinearPath
    /\ exit_code = <<>>
    /\ calls = <<>>
    /\ add_result = <<>>
    /\ ReaderIdle
    /\ FindIdle

NextAppend ==
    \/ AppendOrReport
    \/ Exit

SpecAppend == InitAppend /\ [][NextAppend]_vars

\* C9: when the k-th call raises, add_tracks_to_playlist returns False, the
\* k-1 batches before it stay in the playlist, no batch after the k-th is
\* handed over, and main ends in FAILED with exit code 1.
C9_FailedBatchKeepsEarlierOnes ==
    add_result = <<FALSE>> =>
        LET k == Len(calls)
        IN  /\ k >= 1
            /\ calls = BatchCalls(found_tracks, 1, k)
            /\ playlistTracks[playlist_id] =
                  playlist0[playlist_id] \o SubSeq(found_tracks, 1, (k - 1) * 100)
            /\ pc = "FAILED"
            /\ exit_code = <<1>>
            /\ trace = LinearPath \o <<"FAILED">>

\* The second of three batches raised: the first 100 ids are in the playlist,
\* the third batch was never handed over.
C9_Witness ==
    /\ add_result = <<FALSE>>
    /\ Len(found_tracks) > 200
    /\ Len(calls) = 2
    /\ Len(playlistTracks[playlist_id]) = Len(playlist0[playlist_id]) + 100
    /\ pc = "FAILED" /\ exit_code = <<1>>

-----------------------------------------------------------------------------
(* SpecFind: find_playlist on the pages of the user's playlists.           *)

\* A call of find_playlist(playlist_name), lines 156-174.
FindPlaylistCall ==
    /\ fp_state = "start"
    /\ \E errAt \in 0..Len(userPlaylists) :
          LET r == FindPlaylist(userPlaylists, playlist_name, errAt)
          IN  /\ fp_result' = r.id
              /\ fp_fetched' = r.fetched
              /\ fp_raised' = r.raised
    /\ fp_state' = "returned"
    /\ UNCHANGED <<mainVars, inputVars, remoteVars, readerVars>>

\* Playlist names, two of them equal but for the letter case.
FindNames == {<<"M", "x">>, <<"m", "x">>, <<"k">>}

\* How many playlists the pages before the p-th hold.
RECURSIVE Before(_, _)
Before(pages, p) == IF p = 1 THEN 0 ELSE Before(pages, p - 1) + Len(pages[p - 1])

\* The listing whose pages hold playlists of these names; a playlist's id is
\* its place in the whole listing.
Listing(names) ==
    [p \in 1..Len(names) |->
        [i \in 1..Len(names[p]) |-> [name |-> names[p][i], id |-> Before(names, p) + i]]]

InitFind ==
    /\ \E names \in SeqsUpTo(SeqsUpTo(FindNames, MaxPerPage), MaxPages) :
          /\ names # <<>>
          /\ userPlaylists = Listing(names)
    /\ playlist_name \in {<<"m", "X">>, <<"k">>}
    /\ fp_state = "start"
    /\ fp_result = None
    /\ fp_fetched = 0
    /\ fp_raised = FALSE
    /\ playlistTracks = <<>> /\ playlist0 = <<>> /\ catalog = <<>>
    /\ check_raised = FALSE
    /\ fileTracks = <<>>
    /\ create_playlist = FALSE /\ skip_duplicates = FALSE /\ dry_run = FALSE
    /\ run = "first"
    /\ MainStart
    /\ ReaderIdle

NextFind == FindPlaylistCall

SpecFind == InitFind /\ [][NextFind]_vars

\* The playlists of all pages in the order the service lists them.
Enumeration == Flatten(userPlaylists)

SameNameIgnoringCase(a, b) == Lower(a) = Lower(b)

\* The places in the enumeration of the playlists named as asked.
Matches == {i \in 1..Len(Enumeration) :
              SameNameIgnoringCase(Enumeration[i].name, playlist_name)}

FirstMatch == CHOOSE i \in Matches : \A j \in Matches : i <= j

\* The page that holds the i-th playlist of the enumeration.
PageOf(i) ==
    CHOOSE p \in 1..Len(userPlaylists) :
        Before(userPlaylists, p) < i /\ i <= Before(userPlaylists, p) + Len(userPlaylists[p])

\* C10: find_playlist goes through the pages in order until one holds a match
\* or there is no further page.  What it returns is the id of the first
\* playlist of the enumeration whose name is the one asked for but for the
\* letter case, and it has then fetched the pages up to that one and no more;
\* it returns None only when no page holds a match or a fetch raised.
C10_FindFollowsPagesToFirstMatch ==
    fp_state = "returned" =>
        /\ fp_fetched >= 1 /\ fp_fetched <= Len(userPlaylists)
        /\ fp_result # None =>
              /\ Matches # {}
              /\ fp_result = Enumeration[FirstMatch].id
              /\ fp_fetched = PageOf(FirstMatch)
              /\ ~fp_raised
        /\ fp_result = None => (Matches = {} \/ fp_raised)
        /\ (fp_result = None /\ ~fp_raised) => fp_fetched = Len(userPlaylists)
        /\ fp_raised => (Matches = {} \/ PageOf(FirstMatch) >= fp_fetched)

\* The match was on the second page, after a first page without one; a later
\* playlist of that page matches as well.
C10_Witness ==
    /\ fp_state = "returned"
    /\ fp_result = 2 /\ fp_fetched = 2 /\ ~fp_raised
    /\ Len(userPlaylists[1]) = 1
    /\ Cardinality(Matches) = 2
    /\ Enumeration[2].name # playlist_name

-----------------------------------------------------------------------------
(* SpecReader: a reader called on a file, as main does by the extension.   *)

\* PlaylistReader.read_m3u(file_path), line 274
ReadM3UFile ==
    /\ rd_state = "start"
    /\ file_ext = ".m3u"
    /\ rd_tracks' = ReadM3U(file_lines)
    /\ rd_state' = "returned"
    /\ UNCHANGED <<file_ext, file_lines, csv_header, csv_rows>>
    /\ UNCHANGED <<mainVars, inputVars, remoteVars, findVars>>

\* PlaylistReader.read_txt(file_path), line 276
ReadTxtFile ==
    /\ rd_state = "start"
    /\ file_ext = ".txt"
    /\ rd_tracks' = ReadTxt(file_lines)
    /\ rd_state' = "returned"
    /\ UNCHANGED <<file_ext, file_lines, csv_header, csv_rows>>
    /\ UNCHANGED <<mainVars, inputVars, remoteVars, findVars>>

\* PlaylistReader.read_csv(file_path), line 278
ReadCsvFile ==
    /\ rd_state = "start"
    /\ file_ext = ".csv"
    /\ LET r == ReadCsv(csv_header, csv_rows)
       IN  /\ rd_tracks' = r.tracks
           /\ rd_state' = IF r.raised THEN "raised" ELSE "returned"
    /\ UNCHANGED <<file_ext, file_lines, csv_header, csv_rows>>
    /\ UNCHANGED <<mainVars, inputVars, remoteVars, findVars>>

\* Lines of .m3u files.
M3U_MetaAB == EXTINF \o <<"1", ",", "a", " ", "-", " ", "b">>       \* #EXTINF:1,a - b
M3U_MetaC == EXTINF \o <<"2", "3", ",", "c">>                       \* #EXTINF:23,c
M3U_MetaNeg == EXTINF \o <<"-", "1", ",", "a", " ", "-", " ", "b">> \* #EXTINF:-1,a - b
M3U_Comment == <<"#", "E", "X", "T", "M", "3", "U">>                \* #EXTM3U
M3U_PathDE == <<"/", "m", "/", "d", " ", "-", " ", "e", ".", "m", "p", "3">>  \* /m/d - e.mp3
M3U_PathF == <<" ", "f", ".", "m", "p", "3", " ">>                  \* f.mp3, in spaces
M3U_PathRoot == <<"/">>
M3U_PathG == <<"g", " ", "-", " ", ".", "m", "p", "3">>             \* g - .mp3
M3ULines == {M3U_MetaAB, M3U_MetaC, M3U_MetaNeg, M3U_Comment, <<>>,
             M3U_PathDE, M3U_PathF, M3U_PathRoot, M3U_PathG}

\* Lines of .txt files.
TxtLines == { <<"a", " ", "-", " ", "b">>,
              <<"c", " ", "b", "y", " ", "d">>,
              <<"c", " ", "b", "y", " ", "d", " ", "-", " ", "e">>,
              <<" ", "a", " ", "-", " ", "b", " ", "b", "y", " ", "c", " ">>,
              <<"e">>, <<"-", " ", "b", "y">>, <<" ">>, <<>> }

\* Header rows of .csv files, and the texts of their fields.
H_TRACK == <<"T", "R", "A", "C", "K">>
H_SONG == <<"S", "O", "N", "G">>
H_album == <<"a", "l", "b", "u", "m">>
CsvHeaders == { <<H_title, H_artist>>, <<H_Title, H_Artist>>, <<H_ARTIST, H_TITLE>>,
                <<H_title, H_ARTIST>>, <<H_Track, H_title>>, <<H_song, H_track>>,
                <<H_Song, H_Artist>>, <<H_TRACK, H_artist>>, <<H_SONG, H_album>>,
                <<H_Title, H_SONG>>, <<H_album>>, <<H_title, H_title>> }
CsvFields == { <<>>, <<" ">>, <<"x">>, <<"y", " ">> }

\* The rows a header can have under it: lines of no field, which
\* csv.DictReader leaves out, and lines of up to as many fields as columns;
\* the csv module reads a line of one empty field as a line of no field.
CsvRowsOf(header) == SeqsUpTo(CsvFields, Len(header)) \ {<<<<>>>>}

InitReader ==
    /\ file_ext \in {".m3u", ".txt", ".csv"}
    /\ \/ /\ file_ext = ".m3u"
          /\ file_lines \in SeqsUpTo(M3ULines, MaxLines)
          /\ csv_header = <<>> /\ csv_rows = <<>>
       \/ /\ file_ext = ".txt"
          /\ file_lines \in SeqsUpTo(TxtLines, MaxLines)
          /\ csv_header = <<>> /\ csv_rows = <<>>
       \/ /\ file_ext = ".csv"
          /\ file_lines = <<>>
          /\ csv_header \in CsvHeaders
          /\ csv_rows \in SeqsUpTo(CsvRowsOf(csv_header), MaxRows)
    /\ rd_state = "start"
    /\ rd_tracks = <<>>
    /\ fileTracks = <<>>
    /\ playlist_name = MainName
    /\ create_playlist = FALSE /\ skip_duplicates = FALSE /\ dry_run = FALSE
    /\ catalog = <<>> /\ userPlaylists = <<<<>>>>
    /\ playlistTracks = <<>> /\ playlist0 = <<>>
    /\ check_raised = FALSE
    /\ run = "first"
    /\ MainStart
    /\ FindIdle

NextReader ==
    \/ ReadM3UFile
    \/ ReadTxtFile
    \/ ReadCsvFile

SpecReader == InitReader /\ [][NextReader]_vars

-----------------------------------------------------------------------------
(* Properties of the readers (SpecReader).                                 *)

\* C2: every Track Reference a reader returns has a non-empty title, for
\* every file; the artist may be empty.
C2_TitlesNonEmpty ==
    rd_state = "returned" => \A i \in 1..Len(rd_tracks) : rd_tracks[i].title # <<>>

\* The places of the sequence s whose element satisfies Test, in order.
RECURSIVE PlacesWhere(_, _, _)
PlacesWhere(s, Test(_), n) ==
    IF n = 0 THEN <<>>
    ELSE IF Test(s[n]) THEN Append(PlacesWhere(s, Test, n - 1), n)
    ELSE PlacesWhere(s, Test, n - 1)

\* A path line: not blank and not starting with "#".
IsPathLine(raw) == Strip(raw) # <<>> /\ Head(Strip(raw)) # "#"

\* A metadata line: one that starts with #EXTINF:.
IsExtinfLine(raw) == StartsWith(Strip(raw), EXTINF)

\* Artist and title as "Artist - Title" or "Title" gives them.
ArtistTitle(text) ==
    LET i == Find(text, SEP_DASH)
    IN  IF i = 0 THEN Ref(<<>>, Strip(text))
        ELSE Ref(Strip(SubSeq(text, 1, i - 1)), Strip(From(text, i + 3)))

\* The artist and title of the metadata line #EXTINF:<duration>,<info>.
MetadataOf(raw) ==
    LET line == Strip(raw)
    IN  ArtistTitle(From(line, Find(line, <<",">>) + 1))

PathLines == PlacesWhere(file_lines, IsPathLine, Len(file_lines))

\* No metadata line stands between the path line at j and the path line
\* before it (or the start of the file).
NoMetadataPending(j) ==
    \A i \in 1..(j - 1) :
        IsExtinfLine(file_lines[i]) =>
            \E m \in (i + 1)..(j - 1) : IsPathLine(file_lines[m])

\* C7: in read_m3u every path line gives exactly one Track Reference: the
\* artist and title of the #EXTINF line right before it when there is one,
\* and the one derived from the stem of the path's file name when no #EXTINF
\* line is pending.
C7_PathLineTakesMetadataOrStem ==
    (file_ext = ".m3u" /\ rd_state = "returned") =>
        /\ Len(rd_tracks) = Len(PathLines)
        /\ \A k \in 1..Len(PathLines) :
              LET j == PathLines[k]
              IN  /\ (j > 1 /\ IsExtinfLine(file_lines[j - 1])) =>
                        rd_tracks[k] = MetadataOf(file_lines[j - 1])
                  /\ NoMetadataPending(j) =>
                        rd_tracks[k] = ArtistTitle(PathStem(Strip(file_lines[j])))

IsRow(fields) == fields # <<>>

\* The rows csv.DictReader yields.
CsvDataRows == SelectSeq(csv_rows, IsRow)

\* The non-empty fields of a row under the columns whose name is `name` but
\* for the letter case.
FieldsUnderAnyCase(fields, name) ==
    {RowGet(csv_header, fields, csv_header[i]) :
        i \in {c \in 1..Len(csv_header) :
                 /\ Lower(csv_header[c]) = name
                 /\ Truthy(RowGet(csv_header, fields, csv_header[c]))}}

\* The fields the title may come from: those under title, else those under
\* track, else those under song, in whatever letter case.
TitleFieldsAnyCase(fields) ==
    IF FieldsUnderAnyCase(fields, H_title) # {} THEN FieldsUnderAnyCase(fields, H_title)
    ELSE IF FieldsUnderAnyCase(fields, H_track) # {} THEN FieldsUnderAnyCase(fields, H_track)
    ELSE FieldsUnderAnyCase(fields, H_song)

HasTitleAnyCase(fields) == TitleFieldsAnyCase(fields) # {}

FirstNonEmpty(fields, keys) ==
    LET have == {k \in 1..Len(keys) : Truthy(RowGet(csv_header, fields, keys[k]))}
    IN  IF have = {} THEN <<>>
        ELSE RowGet(csv_header, fields, keys[CHOOSE k \in have : \A m \in have : k <= m])

ExactArtistNames == <<H_artist, H_Artist, H_ARTIST>>
ExactTitleNames == <<H_title, H_Title, H_TITLE, H_track, H_Track, H_song, H_Song>>

HasExactTitle(fields) == FirstNonEmpty(fields, ExactTitleNames) # <<>>

\* The row has a title, no artist, and is too short to have a field under
\* its ARTIST column.
RowBreaksReader(fields) ==
    /\ HasExactTitle(fields)
    /\ FirstNonEmpty(fields, ExactArtistNames) = <<>>
    /\ RowGet(csv_header, fields, H_ARTIST) = NoneText

=============================================================================
